---- MODULE Spec2Model ----
(***************************************************************************)
(* Model of the holiday_de crate: the catalogue of German holidays         *)
(* (src/src/holidays.rs) and the per-region public holiday queries         *)
(* (src/src/regions.rs).  Every operation of the crate is a pure function; *)
(* the state of the model is a GermanRegion value, the last call made on   *)
(* it or on a holiday of the catalogue, and what the call returned or      *)
(* whether it panicked instead of returning.                               *)
(***************************************************************************)
EXTENDS Integers, Sequences, FiniteSets, TLC

VARIABLES op, region, year, holiday, qdate, ret, panicked

vars == <<op, region, year, holiday, qdate, ret, panicked>>

(* ---------------------------------------------------------------------- *)
(* Bounds of the model                                                     *)
(* ---------------------------------------------------------------------- *)

\* number of years after the first one the region queries are called with
YearSpan == 30

\* years bus_und_bettag is called with on its own: 1 .. BussYearSpan
BussYearSpan == 2999

BussYears == 1 .. BussYearSpan

(* ---------------------------------------------------------------------- *)
(* Option<T>                                                               *)
(* ---------------------------------------------------------------------- *)

None == <<>>

Some(x) == <<x>>

(* ---------------------------------------------------------------------- *)
(* chrono::NaiveDate, as the number of days since 0000-12-31 of the        *)
(* proleptic Gregorian calendar (NaiveDate::num_days_from_ce)              *)
(* ---------------------------------------------------------------------- *)

MIN_YEAR == -262144

MAX_YEAR == 262143

IsLeap(y) == (y % 4 = 0 /\ y % 100 # 0) \/ y % 400 = 0

DaysInMonth(y, m) ==
    IF m = 2 THEN (IF IsLeap(y) THEN 29 ELSE 28)
    ELSE IF m \in {4, 6, 9, 11} THEN 30 ELSE 31

\* days of the months of year y before month m
RECURSIVE DaysBeforeMonth(_, _)
DaysBeforeMonth(y, m) ==
    IF m <= 1 THEN 0 ELSE DaysBeforeMonth(y, m - 1) + DaysInMonth(y, m - 1)

\* days of the years before year y, counted from 0001-01-01
DaysBeforeYear(y) ==
    365 * (y - 1) + ((y - 1) \div 4) - ((y - 1) \div 100) + ((y - 1) \div 400)

\* NaiveDate::from_ymd_opt
from_ymd_opt(y, m, d) ==
    IF /\ y >= MIN_YEAR /\ y <= MAX_YEAR
       /\ m >= 1 /\ m <= 12
       /\ d >= 1 /\ d <= DaysInMonth(y, m)
    THEN Some(DaysBeforeYear(y) + DaysBeforeMonth(y, m) + d)
    ELSE None

\* Datelike::year
YearOf(n) ==
    LET approx == ((n - 1) * 400) \div 146097 + 1
    IN  CHOOSE y \in (approx - 1) .. (approx + 1) :
            DaysBeforeYear(y) < n /\ n <= DaysBeforeYear(y + 1)

\* Datelike::month
MonthOf(n) ==
    LET y == YearOf(n)
        o == n - DaysBeforeYear(y)
    IN  CHOOSE m \in 1 .. 12 :
            DaysBeforeMonth(y, m) < o /\ o <= DaysBeforeMonth(y, m) + DaysInMonth(y, m)

\* Datelike::day
DayOf(n) == n - DaysBeforeYear(YearOf(n)) - DaysBeforeMonth(YearOf(n), MonthOf(n))

\* Datelike::weekday().num_days_from_monday(): Monday = 0 .. Sunday = 6
num_days_from_monday(n) == (n - 1) % 7

\* NaiveDate::MIN and NaiveDate::MAX: the first day of MIN_YEAR and the last
\* day of MAX_YEAR
MIN_DATE == DaysBeforeYear(MIN_YEAR) + 1

MAX_DATE == DaysBeforeYear(MAX_YEAR + 1)

\* NaiveDate + Duration::days(k)
AddDays(n, k) == n + k

\* NaiveDate + Duration panics when the sum is not a date NaiveDate has
AddDaysPanics(n, k) == n + k < MIN_DATE \/ n + k > MAX_DATE

(* ---------------------------------------------------------------------- *)
(* computus::gregorian: Easter Sunday of the Gregorian calendar            *)
(* ---------------------------------------------------------------------- *)

gregorian(y) ==
    LET a == y % 19
        b == y \div 100
        c == y % 100
        d == b \div 4
        e == b % 4
        f == (b + 8) \div 25
        g == (b - f + 1) \div 3
        h == (19 * a + b - d - g + 15) % 30
        i == c \div 4
        k == c % 4
        l == (32 + 2 * e + 2 * i - h - k) % 7
        m == (a + 11 * h + 22 * l) \div 451
        n == (h + l - 7 * m + 114) \div 31
        p == (h + l - 7 * m + 114) % 31
    IN  [year |-> y, month |-> n, day |-> p + 1]

(* ---------------------------------------------------------------------- *)
(* src/src/holidays.rs                                                     *)
(* ---------------------------------------------------------------------- *)

\* enum GermanHoliday, in definition order
GermanHoliday ==
    << "Neujahr", "HeiligeDreiKoenige", "Frauentag", "Faschingsdienstag",
       "Aschermittwoch", "Gruendonnerstag", "Karfreitag", "Ostersonntag",
       "Ostermontag", "ErsterMai", "ChristiHimmelfahrt", "Pfingstsonntag",
       "Pfingstmontag", "Fronleichnam", "AugsburgerFriedensfest",
       "MariaeHimmelfahrt", "Weltkindertag", "TagDerDeutschenEinheit",
       "Reformationstag", "Allerheiligen", "BussUndBettag", "Heiligabend",
       "ErsterWeihnachtsfeiertag", "ZweiterWeihnachtsfeiertag", "Silvester" >>

Kinds == { GermanHoliday[i] : i \in 1 .. Len(GermanHoliday) }

\* position of a kind in the definition order of the enum
Ordinal(k) == CHOOSE i \in 1 .. Len(GermanHoliday) : GermanHoliday[i] = k

\* fn date(year, month, day)
date(y, m, d) == from_ymd_opt(y, m, d)

\* relative_to_easter_sunday going one day further than the offset
relative_to_easter_sunday_further(y, days_offset) ==
    LET easter_sunday == gregorian(y)
        d == from_ymd_opt(easter_sunday.year, easter_sunday.month, easter_sunday.day)
    IN  IF d = None THEN None ELSE Some(AddDays(d[1], days_offset + 1))

\* relative_to_easter_sunday counting the offset in weeks
relative_to_easter_sunday_weeks(y, days_offset) ==
    LET easter_sunday == gregorian(y)
        d == from_ymd_opt(easter_sunday.year, easter_sunday.month, easter_sunday.day)
    IN  IF d = None THEN None ELSE Some(AddDays(d[1], 7 * days_offset))

\* fn relative_to_easter_sunday(year, days_offset)
relative_to_easter_sunday(y, days_offset) ==
    LET easter_sunday == gregorian(y)
        d == from_ymd_opt(easter_sunday.year, easter_sunday.month, easter_sunday.day)
    IN  IF d = None THEN None ELSE Some(AddDays(d[1], days_offset))

\* relative_to_easter_sunday panics when adding the offset to Easter Sunday
\* overflows; it returns None when Easter Sunday is not a date
relative_to_easter_sunday_panics(y, days_offset) ==
    LET easter_sunday == gregorian(y)
        d == from_ymd_opt(easter_sunday.year, easter_sunday.month, easter_sunday.day)
    IN  d # None /\ AddDaysPanics(d[1], days_offset)

\* the weekday ordinal below which bus_und_bettag steps back over the weekend
BussBranch == 3

\* bus_und_bettag stepping back one day too few in its first branch
bus_und_bettag_short(y) ==
    LET reference_date == from_ymd_opt(y, 11, 23)[1]
        weekday_ordinal == num_days_from_monday(reference_date)
        duration_to_previous_wednesday ==
            IF weekday_ordinal < BussBranch
            THEN -(weekday_ordinal + 4)
            ELSE 2 - weekday_ordinal
    IN  Some(AddDays(reference_date, duration_to_previous_wednesday))

\* bus_und_bettag taking its first branch for weekday ordinal 3 as well
bus_und_bettag_late(y) ==
    LET reference_date == from_ymd_opt(y, 11, 23)[1]
        weekday_ordinal == num_days_from_monday(reference_date)
        duration_to_previous_wednesday ==
            IF weekday_ordinal <= BussBranch
            THEN -(weekday_ordinal + 5)
            ELSE 2 - weekday_ordinal
    IN  Some(AddDays(reference_date, duration_to_previous_wednesday))

\* fn bus_und_bettag(year)
bus_und_bettag(y) ==
    LET reference_date == from_ymd_opt(y, 11, 23)[1]
        weekday_ordinal == num_days_from_monday(reference_date)
        duration_to_previous_wednesday ==
            IF weekday_ordinal < BussBranch
            THEN -(weekday_ordinal + 5)
            ELSE 2 - weekday_ordinal
    IN  Some(AddDays(reference_date, duration_to_previous_wednesday))

\* NaiveDate::from_ymd panics where from_ymd_opt is None, and bus_und_bettag
\* with it
bus_und_bettag_panics(y) == from_ymd_opt(y, 11, 23) = None

\* GermanHoliday::date panics when the function it calls for the kind does
HolidayDatePanics(k, y) ==
    CASE k = "Faschingsdienstag" -> relative_to_easter_sunday_panics(y, -47)
      [] k = "Aschermittwoch" -> relative_to_easter_sunday_panics(y, -46)
      [] k = "Gruendonnerstag" -> relative_to_easter_sunday_panics(y, -3)
      [] k = "Karfreitag" -> relative_to_easter_sunday_panics(y, -2)
      [] k = "Ostersonntag" -> relative_to_easter_sunday_panics(y, 0)
      [] k = "Ostermontag" -> relative_to_easter_sunday_panics(y, 1)
      [] k = "ChristiHimmelfahrt" -> relative_to_easter_sunday_panics(y, 39)
      [] k = "Pfingstsonntag" -> relative_to_easter_sunday_panics(y, 49)
      [] k = "Pfingstmontag" -> relative_to_easter_sunday_panics(y, 50)
      [] k = "Fronleichnam" -> relative_to_easter_sunday_panics(y, 60)
      [] k = "BussUndBettag" -> bus_und_bettag_panics(y)
      [] OTHER -> FALSE

\* GermanHoliday::date
HolidayDate(k, y) ==
    CASE k = "Neujahr" -> date(y, 1, 1)
      [] k = "HeiligeDreiKoenige" -> date(y, 1, 6)
      [] k = "Frauentag" -> date(y, 3, 8)
      [] k = "Faschingsdienstag" -> relative_to_easter_sunday(y, -47)
      [] k = "Aschermittwoch" -> relative_to_easter_sunday(y, -46)
      [] k = "Gruendonnerstag" -> relative_to_easter_sunday(y, -3)
      [] k = "Karfreitag" -> relative_to_easter_sunday(y, -2)
      [] k = "Ostersonntag" -> relative_to_easter_sunday(y, 0)
      [] k = "Ostermontag" -> relative_to_easter_sunday(y, 1)
      [] k = "ErsterMai" -> date(y, 5, 1)
      [] k = "ChristiHimmelfahrt" -> relative_to_easter_sunday(y, 39)
      [] k = "Pfingstsonntag" -> relative_to_easter_sunday(y, 49)
      [] k = "Pfingstmontag" -> relative_to_easter_sunday(y, 50)
      [] k = "Fronleichnam" -> relative_to_easter_sunday(y, 60)
      [] k = "AugsburgerFriedensfest" -> date(y, 8, 8)
      [] k = "MariaeHimmelfahrt" -> date(y, 8, 15)
      [] k = "Weltkindertag" -> date(y, 9, 20)
      [] k = "TagDerDeutschenEinheit" -> date(y, 10, 3)
      [] k = "Reformationstag" -> date(y, 10, 31)
      [] k = "Allerheiligen" -> date(y, 11, 1)
      [] k = "BussUndBettag" -> bus_und_bettag(y)
      [] k = "Heiligabend" -> date(y, 12, 24)
      [] k = "ErsterWeihnachtsfeiertag" -> date(y, 12, 25)
      [] k = "ZweiterWeihnachtsfeiertag" -> date(y, 12, 26)
      [] k = "Silvester" -> date(y, 12, 31)

(* ---------------------------------------------------------------------- *)
(* src/src/regions.rs                                                      *)
(* ---------------------------------------------------------------------- *)

\* enum GermanRegion
GermanRegion ==
    { "BadenWuerttemberg", "Bayern", "Berlin", "Brandenburg", "Bremen",
      "Hamburg", "Hessen", "MechlenburgVorpommern", "Niedersachsen",
      "NordrheinWestfalen", "RheinlandPfalz", "Saarland", "Sachsen",
      "SachsenAnhalt", "SchleswigHolstein", "Thueringen" }

\* the holidays of the whole country with the two Sundays among them
BUNDESWEITE_FEIERTAGE_sundays ==
    << "Neujahr", "Karfreitag", "Ostersonntag", "Ostermontag", "ErsterMai",
       "ChristiHimmelfahrt", "Pfingstsonntag", "Pfingstmontag",
       "TagDerDeutschenEinheit", "ErsterWeihnachtsfeiertag",
       "ZweiterWeihnachtsfeiertag" >>

BUNDESWEITE_FEIERTAGE ==
    << "Neujahr", "Karfreitag", "Ostermontag", "ErsterMai",
       "ChristiHimmelfahrt", "Pfingstmontag", "TagDerDeutschenEinheit",
       "ErsterWeihnachtsfeiertag", "ZweiterWeihnachtsfeiertag" >>

\* the first year for which holidays are provided
FirstYear == 1995

\* region_specific_holidays with the holidays of BadenWuerttemberg for Bayern
region_specific_holidays_copied(r, y) ==
    CASE r = "BadenWuerttemberg" -> << "HeiligeDreiKoenige", "Fronleichnam", "Allerheiligen" >>
      [] r = "Bayern" -> << "HeiligeDreiKoenige", "Fronleichnam", "Allerheiligen" >>
      [] r = "Berlin" -> IF y >= 2019 THEN << "Frauentag" >> ELSE << >>
      [] r = "Brandenburg" -> << "Reformationstag" >>
      [] r = "Bremen" -> IF y >= 2017 THEN << "Reformationstag" >> ELSE << >>
      [] r = "Hamburg" -> IF y >= 2017 THEN << "Reformationstag" >> ELSE << >>
      [] r = "Hessen" -> << "Fronleichnam" >>
      [] r = "MechlenburgVorpommern" ->
            IF y >= 2023 THEN << "Frauentag", "Reformationstag" >>
            ELSE << "Reformationstag" >>
      [] r = "Niedersachsen" -> IF y >= 2017 THEN << "Reformationstag" >> ELSE << >>
      [] r = "NordrheinWestfalen" -> << "Fronleichnam", "Allerheiligen" >>
      [] r = "RheinlandPfalz" -> << "Fronleichnam", "Allerheiligen" >>
      [] r = "Saarland" -> << "Fronleichnam", "MariaeHimmelfahrt", "Allerheiligen" >>
      [] r = "Sachsen" -> << "Reformationstag", "BussUndBettag" >>
      [] r = "SachsenAnhalt" -> << "HeiligeDreiKoenige", "Reformationstag" >>
      [] r = "SchleswigHolstein" -> IF y >= 2017 THEN << "Reformationstag" >> ELSE << >>
      [] r = "Thueringen" ->
            IF y >= 2019 THEN << "Weltkindertag", "Reformationstag" >>
            ELSE << "Reformationstag" >>

\* region_specific_holidays with Frauentag in Berlin only after 2019
region_specific_holidays_berlin(r, y) ==
    CASE r = "BadenWuerttemberg" -> << "HeiligeDreiKoenige", "Fronleichnam", "Allerheiligen" >>
      [] r = "Bayern" ->
            << "HeiligeDreiKoenige", "Fronleichnam", "MariaeHimmelfahrt", "Allerheiligen" >>
      [] r = "Berlin" -> IF y > 2019 THEN << "Frauentag" >> ELSE << >>
      [] r = "Brandenburg" -> << "Reformationstag" >>
      [] r = "Bremen" -> IF y >= 2017 THEN << "Reformationstag" >> ELSE << >>
      [] r = "Hamburg" -> IF y >= 2017 THEN << "Reformationstag" >> ELSE << >>
      [] r = "Hessen" -> << "Fronleichnam" >>
      [] r = "MechlenburgVorpommern" ->
            IF y >= 2023 THEN << "Frauentag", "Reformationstag" >>
            ELSE << "Reformationstag" >>
      [] r = "Niedersachsen" -> IF y >= 2017 THEN << "Reformationstag" >> ELSE << >>
      [] r = "NordrheinWestfalen" -> << "Fronleichnam", "Allerheiligen" >>
      [] r = "RheinlandPfalz" -> << "Fronleichnam", "Allerheiligen" >>
      [] r = "Saarland" -> << "Fronleichnam", "MariaeHimmelfahrt", "Allerheiligen" >>
      [] r = "Sachsen" -> << "Reformationstag", "BussUndBettag" >>
      [] r = "SachsenAnhalt" -> << "HeiligeDreiKoenige", "Reformationstag" >>
      [] r = "SchleswigHolstein" -> IF y >= 2017 THEN << "Reformationstag" >> ELSE << >>
      [] r = "Thueringen" ->
            IF y >= 2019 THEN << "Weltkindertag", "Reformationstag" >>
            ELSE << "Reformationstag" >>

\* region_specific_holidays with Frauentag in place of Reformationstag
region_specific_holidays_replaced(r, y) ==
    CASE r = "BadenWuerttemberg" -> << "HeiligeDreiKoenige", "Fronleichnam", "Allerheiligen" >>
      [] r = "Bayern" ->
            << "HeiligeDreiKoenige", "Fronleichnam", "MariaeHimmelfahrt", "Allerheiligen" >>
      [] r = "Berlin" -> IF y >= 2019 THEN << "Frauentag" >> ELSE << >>
      [] r = "Brandenburg" -> << "Reformationstag" >>
      [] r = "Bremen" -> IF y >= 2017 THEN << "Reformationstag" >> ELSE << >>
      [] r = "Hamburg" -> IF y >= 2017 THEN << "Reformationstag" >> ELSE << >>
      [] r = "Hessen" -> << "Fronleichnam" >>
      [] r = "MechlenburgVorpommern" ->
            IF y >= 2023 THEN << "Frauentag" >>
            ELSE << "Reformationstag" >>
      [] r = "Niedersachsen" -> IF y >= 2017 THEN << "Reformationstag" >> ELSE << >>
      [] r = "NordrheinWestfalen" -> << "Fronleichnam", "Allerheiligen" >>
      [] r = "RheinlandPfalz" -> << "Fronleichnam", "Allerheiligen" >>
      [] r = "Saarland" -> << "Fronleichnam", "MariaeHimmelfahrt", "Allerheiligen" >>
      [] r = "Sachsen" -> << "Reformationstag", "BussUndBettag" >>
      [] r = "SachsenAnhalt" -> << "HeiligeDreiKoenige", "Reformationstag" >>
      [] r = "SchleswigHolstein" -> IF y >= 2017 THEN << "Reformationstag" >> ELSE << >>
      [] r = "Thueringen" ->
            IF y >= 2019 THEN << "Weltkindertag", "Reformationstag" >>
            ELSE << "Reformationstag" >>

\* region_specific_holidays with Weltkindertag a year early
region_specific_holidays_weltkindertag(r, y) ==
    CASE r = "BadenWuerttemberg" -> << "HeiligeDreiKoenige", "Fronleichnam", "Allerheiligen" >>
      [] r = "Bayern" ->
            << "HeiligeDreiKoenige", "Fronleichnam", "MariaeHimmelfahrt", "Allerheiligen" >>
      [] r = "Berlin" -> IF y >= 2019 THEN << "Frauentag" >> ELSE << >>
      [] r = "Brandenburg" -> << "Reformationstag" >>
      [] r = "Bremen" -> IF y >= 2017 THEN << "Reformationstag" >> ELSE << >>
      [] r = "Hamburg" -> IF y >= 2017 THEN << "Reformationstag" >> ELSE << >>
      [] r = "Hessen" -> << "Fronleichnam" >>
      [] r = "MechlenburgVorpommern" ->
            IF y >= 2023 THEN << "Frauentag", "Reformationstag" >>
            ELSE << "Reformationstag" >>
      [] r = "Niedersachsen" -> IF y >= 2017 THEN << "Reformationstag" >> ELSE << >>
      [] r = "NordrheinWestfalen" -> << "Fronleichnam", "Allerheiligen" >>
      [] r = "RheinlandPfalz" -> << "Fronleichnam", "Allerheiligen" >>
      [] r = "Saarland" -> << "Fronleichnam", "MariaeHimmelfahrt", "Allerheiligen" >>
      [] r = "Sachsen" -> << "Reformationstag", "BussUndBettag" >>
      [] r = "SachsenAnhalt" -> << "HeiligeDreiKoenige", "Reformationstag" >>
      [] r = "SchleswigHolstein" -> IF y >= 2017 THEN << "Reformationstag" >> ELSE << >>
      [] r = "Thueringen" ->
            IF y >= 2018 THEN << "Weltkindertag", "Reformationstag" >>
            ELSE << "Reformationstag" >>

\* GermanRegion::region_specific_holidays
region_specific_holidays(r, y) ==
    CASE r = "BadenWuerttemberg" -> << "HeiligeDreiKoenige", "Fronleichnam", "Allerheiligen" >>
      [] r = "Bayern" ->
            << "HeiligeDreiKoenige", "Fronleichnam", "MariaeHimmelfahrt", "Allerheiligen" >>
      [] r = "Berlin" -> IF y >= 2019 THEN << "Frauentag" >> ELSE << >>
      [] r = "Brandenburg" -> << "Reformationstag" >>
      [] r = "Bremen" -> IF y >= 2017 THEN << "Reformationstag" >> ELSE << >>
      [] r = "Hamburg" -> IF y >= 2017 THEN << "Reformationstag" >> ELSE << >>
      [] r = "Hessen" -> << "Fronleichnam" >>
      [] r = "MechlenburgVorpommern" ->
            IF y >= 2023 THEN << "Frauentag", "Reformationstag" >>
            ELSE << "Reformationstag" >>
      [] r = "Niedersachsen" -> IF y >= 2017 THEN << "Reformationstag" >> ELSE << >>
      [] r = "NordrheinWestfalen" -> << "Fronleichnam", "Allerheiligen" >>
      [] r = "RheinlandPfalz" -> << "Fronleichnam", "Allerheiligen" >>
      [] r = "Saarland" -> << "Fronleichnam", "MariaeHimmelfahrt", "Allerheiligen" >>
      [] r = "Sachsen" -> << "Reformationstag", "BussUndBettag" >>
      [] r = "SachsenAnhalt" -> << "HeiligeDreiKoenige", "Reformationstag" >>
      [] r = "SchleswigHolstein" -> IF y >= 2017 THEN << "Reformationstag" >> ELSE << >>
      [] r = "Thueringen" ->
            IF y >= 2019 THEN << "Weltkindertag", "Reformationstag" >>
            ELSE << "Reformationstag" >>

\* Vec::contains
Contains(s, x) == \E i \in 1 .. Len(s) : s[i] = x

\* holidays_in_year providing holidays one year too early
holidays_in_year_early(r, y) ==
    IF y < FirstYear - 1 THEN << >>
    ELSE LET holidays == BUNDESWEITE_FEIERTAGE \o region_specific_holidays(r, y)
         IN  IF y = 2017 /\ ~Contains(holidays, "Reformationstag")
             THEN Append(holidays, "Reformationstag")
             ELSE holidays

\* holidays_in_year providing holidays only after its first year
holidays_in_year_after(r, y) ==
    IF y <= FirstYear THEN << >>
    ELSE LET holidays == BUNDESWEITE_FEIERTAGE \o region_specific_holidays(r, y)
         IN  IF y = 2017 /\ ~Contains(holidays, "Reformationstag")
             THEN Append(holidays, "Reformationstag")
             ELSE holidays

\* holidays_in_year keeping the Reformationstag of 2017 in the years after it
holidays_in_year_since2017(r, y) ==
    IF y < FirstYear THEN << >>
    ELSE LET holidays == BUNDESWEITE_FEIERTAGE \o region_specific_holidays(r, y)
         IN  IF y >= 2017 /\ ~Contains(holidays, "Reformationstag")
             THEN Append(holidays, "Reformationstag")
             ELSE holidays

\* holidays_in_year pushing the Reformationstag of 2017 unconditionally
holidays_in_year_unchecked(r, y) ==
    IF y < FirstYear THEN << >>
    ELSE LET holidays == BUNDESWEITE_FEIERTAGE \o region_specific_holidays(r, y)
         IN  IF y = 2017
             THEN Append(holidays, "Reformationstag")
             ELSE holidays

\* GermanRegion::holidays_in_year
holidays_in_year(r, y) ==
    IF y < FirstYear THEN << >>
    ELSE LET holidays == BUNDESWEITE_FEIERTAGE \o region_specific_holidays(r, y)
         IN  IF y = 2017 /\ ~Contains(holidays, "Reformationstag")
             THEN Append(holidays, "Reformationstag")
             ELSE holidays

\* the flat_map of holiday_dates_in_year: the (date, holiday) pairs of the
\* holidays whose date can be calculated, in the order of the holidays
RECURSIVE CollectDates(_, _)
CollectDates(hs, y) ==
    IF hs = << >> THEN << >>
    ELSE LET d == HolidayDate(Head(hs), y)
         IN  (IF d = None THEN << >> ELSE << <<d[1], Head(hs)>> >>)
                \o CollectDates(Tail(hs), y)

\* slice::sort_unstable_by_key on the date: every ordering of the entries
\* (given by the set I of their positions in v) that is ascending by date;
\* entries of equal date may come out in any order
RECURSIVE SortUnstable(_, _)
SortUnstable(v, I) ==
    IF I = {} THEN { << >> }
    ELSE LET first == CHOOSE i \in I : \A j \in I : v[i][1] <= v[j][1]
             least == { i \in I : v[i][1] = v[first][1] }
         IN  UNION { { <<v[i]>> \o t : t \in SortUnstable(v, I \ {i}) } : i \in least }

\* holiday_dates_in_year without its sort
sort_missing(v) == { v }

sort_unstable_by_key(v) == SortUnstable(v, 1 .. Len(v))

\* Vec::dedup_by_key on the date: the first entry of every date
RECURSIVE Dedup(_)
Dedup(v) ==
    IF Len(v) <= 1 THEN v
    ELSE IF v[1][1] = v[2][1] THEN Dedup(<<v[1]>> \o Tail(Tail(v)))
    ELSE <<v[1]>> \o Dedup(Tail(v))

\* holiday_dates_in_year keeping one entry for every date
holiday_dates_in_year_dedup(r, y) ==
    { Dedup(v) : v \in sort_unstable_by_key(CollectDates(holidays_in_year(r, y), y)) }

\* holiday_dates_in_year panics when the date of one of the holidays of the
\* year does
holiday_dates_in_year_panics(r, y) ==
    \E k \in { holidays_in_year(r, y)[i] : i \in 1 .. Len(holidays_in_year(r, y)) } :
        HolidayDatePanics(k, y)

\* GermanRegion::holiday_dates_in_year: the vectors it can return
holiday_dates_in_year(r, y) ==
    sort_unstable_by_key(CollectDates(holidays_in_year(r, y), y))

\* a find that keeps the last match
RECURSIVE FindLast(_, _, _)
FindLast(hs, y, d) ==
    IF hs = << >> THEN None
    ELSE LET later == FindLast(Tail(hs), y, d)
         IN  IF later # None THEN later
             ELSE IF HolidayDate(Head(hs), y) = Some(d) THEN Some(Head(hs))
             ELSE None

\* a find that compares with the dates of the year before
RECURSIVE FindYearBefore(_, _, _)
FindYearBefore(hs, y, d) ==
    IF hs = << >> THEN None
    ELSE IF HolidayDate(Head(hs), y - 1) = Some(d) THEN Some(Head(hs))
    ELSE FindYearBefore(Tail(hs), y, d)

\* Iterator::find on holiday.date(year) == Some(date)
RECURSIVE Find(_, _, _)
Find(hs, y, d) ==
    IF hs = << >> THEN None
    ELSE IF HolidayDate(Head(hs), y) = Some(d) THEN Some(Head(hs))
    ELSE Find(Tail(hs), y, d)

\* GermanRegion::holiday_from_date
holiday_from_date(r, d) == Find(holidays_in_year(r, YearOf(d)), YearOf(d), d)

\* GermanRegion::is_holiday
is_holiday(r, d) == holiday_from_date(r, d) # None

(* ---------------------------------------------------------------------- *)
(* The calls                                                               *)
(* ---------------------------------------------------------------------- *)

\* the years of the region queries: from the year before the first year with
\* holidays on
MinYear == FirstYear - 1

Years == MinYear .. (MinYear + YearSpan)

NoHoliday == "-"

\* the dates of the years of the model
QueryDates ==
    (DaysBeforeYear(MinYear) + 1) .. DaysBeforeYear(MinYear + YearSpan + 1)

\* the first years on either side that NaiveDate has no dates of
ExtremeYears == { MIN_YEAR - 1, MAX_YEAR + 1 }

\* more days than NaiveDate has dates after 0000-12-31
HugeOffset == MAX_DATE

\* the offsets relative_to_easter_sunday is called with on its own
Offsets == { -HugeOffset, -47, 0, 60, HugeOffset }

Init ==
    /\ op = "idle"
    /\ panicked = FALSE
    /\ region \in GermanRegion
    /\ year = 0
    /\ holiday = NoHoliday
    /\ qdate = None
    /\ ret = None

CallHolidaysInYear ==
    /\ op = "idle"
    /\ \E y \in Years :
        /\ op' = "holidays_in_year"
        /\ UNCHANGED region
        /\ year' = y
        /\ holiday' = NoHoliday
        /\ qdate' = None
        /\ ret' = holidays_in_year(region, y)
        /\ panicked' = FALSE

CallRegionSpecificHolidays ==
    /\ op = "idle"
    /\ \E y \in Years :
        /\ op' = "region_specific_holidays"
        /\ UNCHANGED region
        /\ year' = y
        /\ holiday' = NoHoliday
        /\ qdate' = None
        /\ ret' = region_specific_holidays(region, y)
        /\ panicked' = FALSE

CallHolidayDatesInYear ==
    /\ op = "idle"
    /\ \E y \in Years \cup ExtremeYears :
        /\ op' = "holiday_dates_in_year"
        /\ UNCHANGED region
        /\ year' = y
        /\ holiday' = NoHoliday
        /\ qdate' = None
        /\ panicked' = holiday_dates_in_year_panics(region, y)
        /\ IF holiday_dates_in_year_panics(region, y)
           THEN ret' = None
           ELSE \E v \in holiday_dates_in_year(region, y) : ret' = v

CallIsHoliday ==
    /\ op = "idle"
    /\ \E d \in QueryDates :
        /\ op' = "is_holiday"
        /\ UNCHANGED region
        /\ year' = YearOf(d)
        /\ holiday' = NoHoliday
        /\ qdate' = Some(d)
        /\ ret' = is_holiday(region, d)
        /\ panicked' = FALSE

CallHolidayFromDate ==
    /\ op = "idle"
    /\ \E d \in QueryDates :
        /\ op' = "holiday_from_date"
        /\ UNCHANGED region
        /\ year' = YearOf(d)
        /\ holiday' = NoHoliday
        /\ qdate' = Some(d)
        /\ ret' = holiday_from_date(region, d)
        /\ panicked' = FALSE

CallDate ==
    /\ op = "idle"
    /\ \E k \in Kinds, y \in Years \cup ExtremeYears :
        /\ op' = "date"
        /\ UNCHANGED region
        /\ year' = y
        /\ holiday' = k
        /\ qdate' = None
        /\ panicked' = HolidayDatePanics(k, y)
        /\ ret' = IF HolidayDatePanics(k, y) THEN None ELSE HolidayDate(k, y)

\* relative_to_easter_sunday called on its own; qdate keeps its offset
CallRelativeToEasterSunday ==
    /\ op = "idle"
    /\ \E y \in Years \cup ExtremeYears, days_offset \in Offsets :
        /\ op' = "relative_to_easter_sunday"
        /\ UNCHANGED region
        /\ year' = y
        /\ holiday' = NoHoliday
        /\ qdate' = Some(days_offset)
        /\ panicked' = relative_to_easter_sunday_panics(y, days_offset)
        /\ ret' = IF relative_to_easter_sunday_panics(y, days_offset) THEN None
                  ELSE relative_to_easter_sunday(y, days_offset)

CallBusUndBettag ==
    /\ op = "idle"
    /\ \E y \in BussYears :
        /\ op' = "bus_und_bettag"
        /\ UNCHANGED region
        /\ year' = y
        /\ holiday' = "BussUndBettag"
        /\ qdate' = None
        /\ ret' = bus_und_bettag(y)
        /\ panicked' = FALSE

\* the caller drops the returned value; nothing is kept between calls
Return ==
    /\ op # "idle"
    /\ op' = "idle"
    /\ UNCHANGED region
    /\ year' = 0
    /\ holiday' = NoHoliday
    /\ qdate' = None
    /\ ret' = None
    /\ panicked' = FALSE

Next ==
    \/ CallHolidaysInYear
    \/ CallRegionSpecificHolidays
    \/ CallHolidayDatesInYear
    \/ CallIsHoliday
    \/ CallHolidayFromDate
    \/ CallDate
    \/ CallRelativeToEasterSunday
    \/ CallBusUndBettag
    \/ Return

Spec == Init /\ [][Next]_vars

\* the calls that take a year
NextYear ==
    \/ CallHolidaysInYear
    \/ CallRegionSpecificHolidays
    \/ CallHolidayDatesInYear
    \/ CallDate
    \/ CallRelativeToEasterSunday
    \/ CallBusUndBettag
    \/ Return

SpecYear == Init /\ [][NextYear]_vars

(* ---------------------------------------------------------------------- *)
(* Properties                                                              *)
(* ---------------------------------------------------------------------- *)

\* chrono::Weekday of a date
Weekdays == << "Mon", "Tue", "Wed", "Thu", "Fri", "Sat", "Sun" >>

WeekdayOf(n) == Weekdays[num_days_from_monday(n) + 1]

\* November 23 of the year of the last call
ReferenceDate == from_ymd_opt(year, 11, 23)[1]

\* the number of days the last call of bus_und_bettag stepped back
BussStep == ReferenceDate - ret[1]

\* the November days bus_und_bettag has to return in the years the tests name
BussKnownDay ==
    [y \in 2018 .. 2023 |->
        CASE y = 2018 -> 21 [] y = 2019 -> 20 [] y = 2020 -> 18
          [] y = 2021 -> 17 [] y = 2022 -> 16 [] y = 2023 -> 22]

\* C4: for every year 1..2999 BussUndBettag is a Wednesday, 1 to 7 days
\* before November 23 of that year (a day of November 16..22), and it is
\* Nov 21 in 2018, Nov 20 in 2019, Nov 18 in 2020, Nov 17 in 2021, Nov 16 in
\* 2022 and Nov 22 in 2023.
C4_BussUndBettagWednesday ==
    op = "bus_und_bettag" =>
        /\ ret # None
        /\ WeekdayOf(ret[1]) = "Wed"
        /\ BussStep >= 1 /\ BussStep <= 7
        /\ YearOf(ret[1]) = year /\ MonthOf(ret[1]) = 11
        /\ DayOf(ret[1]) >= 16 /\ DayOf(ret[1]) <= 22
        /\ year \in DOMAIN BussKnownDay => DayOf(ret[1]) = BussKnownDay[year]

\* a call of bus_und_bettag for 2023 has returned November 22
C4_Witness ==
    /\ op = "bus_und_bettag" /\ year = 2023
    /\ MonthOf(ret[1]) = 11 /\ DayOf(ret[1]) = 22

\* the first branch of bus_und_bettag was taken: it steps back w + 5 days,
\* the second one w - 2 days, w being the weekday ordinal of November 23
BussFirstBranch == BussStep = num_days_from_monday(ReferenceDate) + 5

\* C5 as stated: the branch w < 3 covers exactly the years in which November
\* 23 is a Sunday, Monday or Tuesday, and when November 23 is a Wednesday the
\* rule steps back exactly 1 day.
C5_AsStated ==
    op = "bus_und_bettag" =>
        /\ BussFirstBranch <=> WeekdayOf(ReferenceDate) \in { "Sun", "Mon", "Tue" }
        /\ WeekdayOf(ReferenceDate) = "Wed" => BussStep = 1

\* C5 amended: the branch w < 3 covers exactly the years in which November 23
\* is a Monday, Tuesday or Wednesday; the boundary w = 3 is Thursday, from
\* which the rule steps back exactly 1 day; when November 23 is itself a
\* Wednesday the rule steps back 7 days.
C5_BussBranchBoundary ==
    op = "bus_und_bettag" =>
        /\ BussFirstBranch <=> WeekdayOf(ReferenceDate) \in { "Mon", "Tue", "Wed" }
        /\ num_days_from_monday(ReferenceDate) = 3 <=> WeekdayOf(ReferenceDate) = "Thu"
        /\ WeekdayOf(ReferenceDate) = "Thu" => BussStep = 1
        /\ WeekdayOf(ReferenceDate) = "Wed" => BussStep = 7

\* a call of bus_und_bettag for a year whose November 23 is a Wednesday has
\* stepped back a week
C5_Witness ==
    /\ op = "bus_und_bettag"
    /\ WeekdayOf(ReferenceDate) = "Wed"
    /\ BussStep = 7

\* the elements of a vector
Range(s) == { s[i] : i \in 1 .. Len(s) }

\* the dates of the entries of the vector holiday_dates_in_year returned
RetDates == [i \in 1 .. Len(ret) |-> ret[i][1]]

\* C1 as stated: the dates of holiday_dates_in_year(R, Y) are strictly
\* increasing for every region R and year Y: no two holidays of a region
\* derive to the same date.
C1_AsStated ==
    op = "holiday_dates_in_year" =>
        \A i \in 1 .. Len(ret) - 1 : RetDates[i] < RetDates[i + 1]

\* C1 amended: the dates of holiday_dates_in_year(R, Y) never decrease, and
\* they are strictly increasing but for ErsterMai and ChristiHimmelfahrt,
\* which derive to the same date, May 1, in the years in which Easter Sunday
\* is March 23 (2008); no other two holidays of a region share a date.
C1_IncreasingButMayFirst ==
    op = "holiday_dates_in_year" =>
        \A i \in 1 .. Len(ret) - 1 :
            /\ RetDates[i] <= RetDates[i + 1]
            /\ RetDates[i] = RetDates[i + 1] =>
                    /\ { ret[i][2], ret[i + 1][2] } = { "ErsterMai", "ChristiHimmelfahrt" }
                    /\ MonthOf(RetDates[i]) = 5 /\ DayOf(RetDates[i]) = 1
                    /\ gregorian(year).month = 3 /\ gregorian(year).day = 23

\* holiday_dates_in_year has returned the holidays of 2008, with May 1 twice
C1_Witness ==
    /\ op = "holiday_dates_in_year" /\ year = 2008
    /\ \E i \in 1 .. Len(ret) - 1 :
            /\ RetDates[i] = RetDates[i + 1]
            /\ MonthOf(RetDates[i]) = 5 /\ DayOf(RetDates[i]) = 1

\* the nine nationwide holidays
NationalHolidaySet ==
    { "Neujahr", "Karfreitag", "Ostermontag", "ErsterMai", "ChristiHimmelfahrt",
      "Pfingstmontag", "TagDerDeutschenEinheit", "ErsterWeihnachtsfeiertag",
      "ZweiterWeihnachtsfeiertag" }

\* C2: for every region and every year before 1995 holidays_in_year and
\* holiday_dates_in_year are empty, and for every date of a year before 1995
\* is_holiday is false and holiday_from_date is None.
C2_NothingBefore1995 ==
    year < 1995 =>
        /\ op = "holidays_in_year" => ret = << >>
        /\ op = "holiday_dates_in_year" => ret = << >>
        /\ op = "is_holiday" => ret = FALSE
        /\ op = "holiday_from_date" => ret = None

\* is_holiday has answered no for New Year's Day of 1994
C2_Witness ==
    /\ op = "is_holiday" /\ region = "Bayern"
    /\ YearOf(qdate[1]) = 1994 /\ MonthOf(qdate[1]) = 1 /\ DayOf(qdate[1]) = 1
    /\ ret = FALSE

\* C3: for every region and every year from 1995 on holidays_in_year
\* contains each of the nine nationwide holidays.
C3_NationalHolidays ==
    (op = "holidays_in_year" /\ year >= 1995) => NationalHolidaySet \subseteq Range(ret)

\* holidays_in_year has returned the holidays of a region for 1995
C3_Witness ==
    /\ op = "holidays_in_year" /\ year = 1995 /\ region = "Hessen"
    /\ NationalHolidaySet \subseteq Range(ret)
    /\ "Fronleichnam" \in Range(ret)

\* the holidays of the region and year of the last call that derive to date d
Matches(d) ==
    { k \in Range(holidays_in_year(region, year)) : HolidayDate(k, year) = Some(d) }

\* C6: holiday_from_date(R, d) returns the first kind, in the definition
\* order of the catalogue, among holidays_in_year(R, year(d)) whose date in
\* year(d) is d, and None when there is none; of two holidays of the region
\* that derive to the same date only the earlier one is ever returned.
C6_FirstMatchWins ==
    op = "holiday_from_date" =>
        /\ ret = None <=> Matches(qdate[1]) = {}
        /\ ret # None =>
                /\ ret[1] \in Matches(qdate[1])
                /\ \A k \in Matches(qdate[1]) : Ordinal(ret[1]) <= Ordinal(k)
                /\ \A k \in Range(holidays_in_year(region, year)) :
                        HolidayDate(k, year) = HolidayDate(ret[1], year)
                            => Ordinal(ret[1]) <= Ordinal(k)

\* holiday_from_date has returned ErsterMai for May 1 of 2008, the day of
\* ChristiHimmelfahrt of that year
C6_Witness ==
    /\ op = "holiday_from_date" /\ year = 2008
    /\ qdate = HolidayDate("ChristiHimmelfahrt", 2008)
    /\ Cardinality(Matches(qdate[1])) = 2
    /\ ret = Some("ErsterMai")

\* C7: holiday_dates_in_year(R, Y) is sorted ascending by date and entries
\* of the same date appear in the definition order of the catalogue, as a
\* stable sort leaves them.
C7_StableSort ==
    op = "holiday_dates_in_year" =>
        \A i \in 1 .. Len(ret) - 1 :
            /\ RetDates[i] <= RetDates[i + 1]
            /\ RetDates[i] = RetDates[i + 1] => Ordinal(ret[i][2]) < Ordinal(ret[i + 1][2])

\* the (region, date) pairs of the dates holiday_dates_in_year lists for a
\* region in the years of the model
ListedDates ==
    UNION { UNION { { <<r, v[i][1]>> : i \in 1 .. Len(v) } : v \in holiday_dates_in_year(r, y) } :
                <<r, y>> \in GermanRegion \X Years }

\* date d is one of the dates holiday_dates_in_year lists for region r
Listed(r, d) == <<r, d>> \in ListedDates

\* C8: is_holiday(R, d) is true iff holiday_from_date(R, d) returns a kind,
\* and that is exactly when d is one of the dates of
\* holiday_dates_in_year(R, year(d)); 2018-01-01 is a holiday in Bayern and
\* resolves to Neujahr.
C8_HolidayIffListed ==
    /\ op = "is_holiday" =>
            /\ ret <=> holiday_from_date(region, qdate[1]) # None
            /\ ret <=> Listed(region, qdate[1])
            /\ (region = "Bayern" /\ qdate = from_ymd_opt(2018, 1, 1)) => ret
    /\ op = "holiday_from_date" =>
            /\ ret # None <=> is_holiday(region, qdate[1])
            /\ ret # None <=> Listed(region, qdate[1])
            /\ (region = "Bayern" /\ qdate = from_ymd_opt(2018, 1, 1)) => ret = Some("Neujahr")

\* is_holiday has answered yes for 2018-01-01 in Bayern
C8_Witness ==
    /\ op = "is_holiday" /\ region = "Bayern"
    /\ YearOf(qdate[1]) = 2018 /\ MonthOf(qdate[1]) = 1 /\ DayOf(qdate[1]) = 1
    /\ ret = TRUE

\* the number of holidays the test total_number_holidays expects
ExpectedNumber ==
    [r \in GermanRegion |->
        CASE r = "BadenWuerttemberg" -> 12
          [] r = "Bayern" -> 13
          [] r = "Berlin" -> 10
          [] r = "Brandenburg" -> 10
          [] r = "Bremen" -> 10
          [] r = "Hamburg" -> 10
          [] r = "Hessen" -> 10
          [] r = "MechlenburgVorpommern" -> 11
          [] r = "Niedersachsen" -> 10
          [] r = "NordrheinWestfalen" -> 11
          [] r = "RheinlandPfalz" -> 11
          [] r = "Saarland" -> 12
          [] r = "Sachsen" -> 11
          [] r = "SachsenAnhalt" -> 11
          [] r = "SchleswigHolstein" -> 10
          [] r = "Thueringen" -> 11]

\* C9: for every year from 2023 on holidays_in_year(R, Y) has the number of
\* entries the test total_number_holidays expects of region R, whatever the
\* year.
C9_TotalNumberHolidays ==
    (op = "holidays_in_year" /\ year >= 2023) => Len(ret) = ExpectedNumber[region]

\* holidays_in_year has returned the 11 holidays of MechlenburgVorpommern of
\* a year after 2023
C9_Witness ==
    /\ op = "holidays_in_year" /\ region = "MechlenburgVorpommern" /\ year > 2023
    /\ Len(ret) = 11

\* C10: in 2019 BadenWuerttemberg has exactly 12 holidays and Bayern exactly
\* 13, and in every year from 1995 on the holidays of Bayern are those of
\* BadenWuerttemberg and MariaeHimmelfahrt, one more.
C10_BayernOneMore ==
    op = "holidays_in_year" =>
        /\ (year = 2019 /\ region = "BadenWuerttemberg") => Len(ret) = 12
        /\ (year = 2019 /\ region = "Bayern") => Len(ret) = 13
        /\ (year >= 1995 /\ region = "Bayern") =>
                /\ Range(ret) = Range(holidays_in_year("BadenWuerttemberg", year))
                                    \cup { "MariaeHimmelfahrt" }
                /\ Len(ret) = Len(holidays_in_year("BadenWuerttemberg", year)) + 1
                /\ Cardinality(Range(ret)) = Len(ret)
        /\ (year >= 1995 /\ region = "BadenWuerttemberg") =>
                /\ "MariaeHimmelfahrt" \notin Range(ret)
                /\ Range(holidays_in_year("Bayern", year)) = Range(ret) \cup { "MariaeHimmelfahrt" }

\* holidays_in_year has returned the 13 holidays of Bayern of 2019
C10_Witness ==
    /\ op = "holidays_in_year" /\ region = "Bayern" /\ year = 2019
    /\ Len(ret) = 13
    /\ "MariaeHimmelfahrt" \in Range(ret)

\* C11: Frauentag is in holidays_in_year(Berlin, Y) iff Y >= 2019; March 8 of
\* year Y is a holiday in Berlin that resolves to Frauentag for every
\* Y >= 2019 and is not a holiday in Berlin for every Y < 2019.
C11_FrauentagBerlin ==
    region = "Berlin" =>
        /\ op = "holidays_in_year" => ("Frauentag" \in Range(ret) <=> year >= 2019)
        /\ (op = "holiday_from_date" /\ MonthOf(qdate[1]) = 3 /\ DayOf(qdate[1]) = 8) =>
                ret = (IF year >= 2019 THEN Some("Frauentag") ELSE None)
        /\ (op = "is_holiday" /\ MonthOf(qdate[1]) = 3 /\ DayOf(qdate[1]) = 8) =>
                ret = (year >= 2019)

\* holiday_from_date has returned Frauentag for 2019-03-08 in Berlin
C11_Witness ==
    /\ op = "holiday_from_date" /\ region = "Berlin"
    /\ qdate = from_ymd_opt(2019, 3, 8)
    /\ ret = Some("Frauentag")

\* C12: the regional holidays never lose a holiday from one year to a later
\* one: a kind of region_specific_holidays(R, Y) is a kind of
\* region_specific_holidays(R, Y') for every Y' >= Y.
C12_NoFlapping ==
    op = "region_specific_holidays" =>
        \A y2 \in Years :
            y2 >= year => Range(ret) \subseteq Range(region_specific_holidays(region, y2))

\* region_specific_holidays has returned Frauentag and Reformationstag for
\* MechlenburgVorpommern in 2023, the year Frauentag was added
C12_Witness ==
    /\ op = "region_specific_holidays" /\ region = "MechlenburgVorpommern" /\ year = 2023
    /\ Range(ret) = { "Frauentag", "Reformationstag" }
    /\ "Frauentag" \notin Range(region_specific_holidays(region, 2022))

\* the number of entries of vector s that are e
Count(s, e) == Cardinality({ i \in 1 .. Len(s) : s[i] = e })

\* C13: holidays_in_year(R, Y) never lists a holiday twice; in 2017 every
\* region lists Reformationstag exactly once, and in every other year a
\* region lists it only as one of its regional holidays.
C13_NoDuplicates ==
    op = "holidays_in_year" =>
        /\ \A k \in Range(ret) : Count(ret, k) = 1
        /\ year = 2017 => Count(ret, "Reformationstag") = 1
        /\ year # 2017 =>
                ("Reformationstag" \in Range(ret) <=>
                    /\ year >= 1995
                    /\ "Reformationstag" \in Range(region_specific_holidays(region, year)))

\* holidays_in_year has returned the holidays of Brandenburg of 2017, its
\* regional Reformationstag among them, once
C13_Witness ==
    /\ op = "holidays_in_year" /\ region = "Brandenburg" /\ year = 2017
    /\ "Reformationstag" \in Range(region_specific_holidays(region, year))
    /\ Count(ret, "Reformationstag") = 1

\* the holidays that always fall on a Sunday
SundayHolidays == { "Ostersonntag", "Pfingstsonntag" }

\* C14: holidays_in_year never contains Ostersonntag or Pfingstsonntag; for
\* Bayern it never contains AugsburgerFriedensfest but contains
\* MariaeHimmelfahrt from 1995 on; for Sachsen and Thueringen it never
\* contains Fronleichnam; GermanHoliday::date still gives the dates of the
\* excluded holidays, a Sunday for the first two.
C14_ExcludedByDefault ==
    /\ op = "holidays_in_year" =>
            /\ Range(ret) \cap SundayHolidays = {}
            /\ region = "Bayern" =>
                    /\ "AugsburgerFriedensfest" \notin Range(ret)
                    /\ year >= 1995 => "MariaeHimmelfahrt" \in Range(ret)
            /\ region \in { "Sachsen", "Thueringen" } => "Fronleichnam" \notin Range(ret)
    /\ (op = "date" /\ year \in Years) =>
            /\ holiday \in SundayHolidays \cup { "AugsburgerFriedensfest", "Fronleichnam" } =>
                    ret # None /\ YearOf(ret[1]) = year
            /\ holiday \in SundayHolidays => WeekdayOf(ret[1]) = "Sun"
            /\ holiday = "AugsburgerFriedensfest" => MonthOf(ret[1]) = 8 /\ DayOf(ret[1]) = 8

\* GermanHoliday::date has returned August 8 for the AugsburgerFriedensfest
\* of 2019
C14_Witness ==
    /\ op = "date" /\ holiday = "AugsburgerFriedensfest" /\ year = 2019
    /\ ret = from_ymd_opt(2019, 8, 8)

\* C15: date derivation never panics: for every kind and every year
\* GermanHoliday::date returns a date, or None when the date type has no such
\* date; relative_to_easter_sunday returns for every year and every offset;
\* holiday_dates_in_year returns for every region and every year.
C15_NeverPanics ==
    /\ op = "date" =>
            /\ ~panicked
            /\ from_ymd_opt(year, 1, 1) = None => ret = None
    /\ op = "relative_to_easter_sunday" =>
            /\ ~panicked
            /\ from_ymd_opt(year, 1, 1) = None => ret = None
    /\ op = "holiday_dates_in_year" =>
            /\ ~panicked
            /\ from_ymd_opt(year, 1, 1) = None => ret = << >>

\* the offset in days of the holidays that follow Easter Sunday
EasterOffset ==
    [k \in { "Faschingsdienstag", "Aschermittwoch", "Gruendonnerstag", "Karfreitag",
             "Ostersonntag", "Ostermontag", "ChristiHimmelfahrt", "Pfingstsonntag",
             "Pfingstmontag", "Fronleichnam" } |->
        CASE k = "Faschingsdienstag" -> -47
          [] k = "Aschermittwoch" -> -46
          [] k = "Gruendonnerstag" -> -3
          [] k = "Karfreitag" -> -2
          [] k = "Ostersonntag" -> 0
          [] k = "Ostermontag" -> 1
          [] k = "ChristiHimmelfahrt" -> 39
          [] k = "Pfingstsonntag" -> 49
          [] k = "Pfingstmontag" -> 50
          [] k = "Fronleichnam" -> 60]

\* month and day of Easter Sunday in the years the tests name
KnownEaster ==
    [y \in 2016 .. 2020 |->
        CASE y = 2016 -> <<3, 27>> [] y = 2017 -> <<4, 16>> [] y = 2018 -> <<4, 1>>
          [] y = 2019 -> <<4, 21>> [] y = 2020 -> <<4, 12>>]

\* C16: every Easter-relative holiday derives to Easter Sunday of the year
\* plus its offset, Easter Sunday being a Sunday between March 22 and April
\* 25 of that year, and 2016-03-27, 2017-04-16, 2018-04-01, 2019-04-21 and
\* 2020-04-12 in those years.
C16_EasterOffsets ==
    (op = "date" /\ holiday \in DOMAIN EasterOffset /\ year \in Years) =>
        /\ ret # None
        /\ LET easter == ret[1] - EasterOffset[holiday]
           IN  /\ Some(easter) = from_ymd_opt(gregorian(year).year, gregorian(year).month,
                                              gregorian(year).day)
               /\ WeekdayOf(easter) = "Sun"
               /\ YearOf(easter) = year
               /\ \/ MonthOf(easter) = 3 /\ DayOf(easter) >= 22
                  \/ MonthOf(easter) = 4 /\ DayOf(easter) <= 25
               /\ year \in DOMAIN KnownEaster =>
                      <<MonthOf(easter), DayOf(easter)>> = KnownEaster[year]

\* GermanHoliday::date has returned June 20 for the Fronleichnam of 2019
C16_Witness ==
    /\ op = "date" /\ holiday = "Fronleichnam" /\ year = 2019
    /\ ret = from_ymd_opt(2019, 6, 20)

\* the regions C18 names a year-conditional rule for
NamedConditional ==
    { "Bremen", "Hamburg", "Niedersachsen", "SchleswigHolstein",
      "MechlenburgVorpommern", "Thueringen" }

\* the rules C18 names: Reformationstag in Bremen, Hamburg, Niedersachsen and
\* SchleswigHolstein iff year >= 2017, Frauentag in MechlenburgVorpommern iff
\* year >= 2023, Weltkindertag in Thueringen iff year >= 2019
NamedRules ==
    (op = "holidays_in_year" /\ year >= 1995) =>
        /\ region \in { "Bremen", "Hamburg", "Niedersachsen", "SchleswigHolstein" } =>
                ("Reformationstag" \in Range(ret) <=> year >= 2017)
        /\ region = "MechlenburgVorpommern" => ("Frauentag" \in Range(ret) <=> year >= 2023)
        /\ region = "Thueringen" => ("Weltkindertag" \in Range(ret) <=> year >= 2019)

\* C18 as stated: the rules it names hold, and the regional holidays of every
\* other region are the same in all years.
C18_AsStated ==
    /\ NamedRules
    /\ (op = "region_specific_holidays" /\ region \notin NamedConditional) =>
            ret = region_specific_holidays(region, FirstYear)

\* C18 amended: the rules it names hold, Frauentag is observed in Berlin iff
\* year >= 2019, and the regional holidays of the nine other regions are the
\* same in all years.
C18_YearBoundaries ==
    /\ NamedRules
    /\ (op = "holidays_in_year" /\ year >= 1995 /\ region = "Berlin") =>
            ("Frauentag" \in Range(ret) <=> year >= 2019)
    /\ (op = "region_specific_holidays" /\ region \notin NamedConditional \cup { "Berlin" }) =>
            ret = region_specific_holidays(region, FirstYear)
    /\ (op = "region_specific_holidays" /\ region \in NamedConditional \cup { "Berlin" }) =>
            /\ ret # region_specific_holidays(region, FirstYear)
                    <=> year >= (IF region \in { "Berlin", "Thueringen" } THEN 2019
                                 ELSE IF region = "MechlenburgVorpommern" THEN 2023
                                 ELSE 2017)

\* region_specific_holidays has returned Frauentag for Berlin in 2019, where
\* it returns nothing for 1995
C18_Witness ==
    /\ op = "region_specific_holidays" /\ region = "Berlin" /\ year = 2019
    /\ ret = << "Frauentag" >>
    /\ region_specific_holidays(region, FirstYear) = << >>

\* C19: holiday_dates_in_year(R, Y) holds exactly one entry (d, k) for every
\* kind k of holidays_in_year(R, Y) that has a date, with d the date of k in
\* Y, and nothing else; it is as long as holidays_in_year(R, Y) when every
\* kind has a date.
C19_OneEntryPerKind ==
    (op = "holiday_dates_in_year" /\ ~panicked) =>
        LET hs == holidays_in_year(region, year)
            dated == { i \in 1 .. Len(hs) : HolidayDate(hs[i], year) # None }
        IN  /\ Len(ret) = Cardinality(dated)
            /\ dated = 1 .. Len(hs) => Len(ret) = Len(hs)
            /\ \A i \in 1 .. Len(ret) :
                    /\ ret[i][2] \in Range(hs)
                    /\ Some(ret[i][1]) = HolidayDate(ret[i][2], year)
            /\ \A i \in dated :
                    Cardinality({ j \in 1 .. Len(ret) : ret[j][2] = hs[i] }) = 1

\* holiday_dates_in_year has returned twelve entries for BadenWuerttemberg in
\* 2008, the year two of its holidays share a date
C19_Witness ==
    /\ op = "holiday_dates_in_year" /\ region = "BadenWuerttemberg" /\ year = 2008
    /\ Len(ret) = 12
    /\ \E i \in 1 .. Len(ret) - 1 : ret[i][1] = ret[i + 1][1]

\* C20: every date derived for a holiday lies in the year it was derived for,
\* so that holiday_from_date, which looks at the holidays of the year of the
\* date only, finds a holiday for every date holiday_dates_in_year lists.
C20_DateInYear ==
    /\ (op = "date" /\ ret # None) => YearOf(ret[1]) = year
    /\ op = "bus_und_bettag" => YearOf(ret[1]) = year
    /\ op = "holiday_dates_in_year" =>
            \A i \in 1 .. Len(ret) :
                /\ YearOf(ret[i][1]) = year
                /\ holiday_from_date(region, ret[i][1]) # None

\* GermanHoliday::date has returned February 5 for the Faschingsdienstag of
\* 2008, 47 days before the Easter Sunday of March 23
C20_Witness ==
    /\ op = "date" /\ holiday = "Faschingsdienstag" /\ year = 2008
    /\ ret = from_ymd_opt(2008, 2, 5)

====
